---- MODULE Spec2Model ----
(***************************************************************************)
(* Model of the midi-router command routing and tempo synchronisation      *)
(* engine: MidiProcessor (src/src/processor.rs), the OSC listener loop     *)
(* (src/src/osc_listener.rs) and the MIDI listener (src/src/router.rs).    *)
(***************************************************************************)
EXTENDS Integers, Sequences, FiniteSets, TLC

(***************************************************************************)
(* Bounds of the model.                                                    *)
(***************************************************************************)
\* highest value read from the system clock
MaxClock == 2
\* tempo packets that arrive on the OSC sources, all together
MaxPackets == 2
\* program-change messages that arrive on the MIDI session
MaxMidiEvents == 2
\* events, tempo packets and program changes together, of the router specification
MaxRouterEvents == 2
\* highest BPM a tempo message carries (whole numbers from 1)
MaxBpm == 200
\* highest value, min or max of a Normalized argument in the configuration
MaxArg == 2

(***************************************************************************)
(* Configuration: devices (device.rs) and mappings (mapping.rs).           *)
(***************************************************************************)
\* Option<T>: None is the empty sequence, Some(x) the one-element sequence
None == << >>
Some(x) == << x >>

\* Command (device.rs): the variants the processor matches on.  The MIDI
\* variants carry a channel field of their own, next to the send channel of
\* the mapping.
ProgramChange(ch, p) == [type |-> "program_change", channel |-> ch, program |-> p]
ControlChange(ch, c, v) ==
    [type |-> "control_change", channel |-> ch, controller |-> c, value |-> v]
OscWith(a, args) == [type |-> "osc", address |-> a, args |-> args]
Osc(a) == OscWith(a, << >>)

\* Destination (mapping.rs)
RtpMidi(n) == [type |-> "rtp_midi", name |-> n]
OscDest(n) == [type |-> "osc", name |-> n]

\* TempoSpec (device.rs)
TapTempo(cs) == [type |-> "tap_tempo", commands |-> cs]
RawTempo(cs, dt) == [type |-> "raw_tempo", commands |-> cs, data_type |-> dt]
\* Device.tempo_spec = None
NoTempo == [type |-> "none"]

\* Program (device.rs)
Program(n, cs) == [number |-> n, commands |-> cs]

\* DeviceMapping (mapping.rs)
DeviceMapping(d, lc, sc, dest) ==
    [device_id |-> d, listen_channel |-> lc, send_channel |-> sc, destination |-> dest]

\* DeviceConfig.devices: device id -> Device (programs, tempo_spec)
devices ==
    [ looper |-> [programs   |-> << Program(1, << Osc("/scene"), Osc("/go") >>) >>,
                  tempo_spec |-> TapTempo(<< Osc("/tap"), Osc("/led") >>)],
      delay  |-> [programs   |-> << Program(1, << ProgramChange(9, 5) >>),
                                    Program(2, << ControlChange(1, 7, 9) >>) >>,
                  tempo_spec |-> RawTempo(<< ControlChange(1, 20, 0) >>, "tempo")],
      pedal  |-> [programs   |-> << Program(1, << ProgramChange(1, 9) >>) >>,
                  tempo_spec |-> TapTempo(<< ControlChange(1, 64, 127) >>)],
      amp    |-> [programs   |-> << Program(2, << ProgramChange(1, 3) >>) >>,
                  tempo_spec |-> NoTempo],
      rig    |-> [programs   |-> << Program(1, << ProgramChange(1, 1), Osc("/x"),
                                                  ControlChange(1, 1, 2) >>) >>,
                  tempo_spec |-> NoTempo] ]

DeviceIds == DOMAIN devices

\* DeviceConfig::get_device
get_device(id) == IF id \in DeviceIds THEN Some(devices[id]) ELSE None

\* MapConfig.osc_destinations (names that resolve) and the sessions the
\* SessionManager holds after initialize_sessions
osc_destinations == {"desk"}
sessions == {"main"}

\* MapConfig.device_mappings of the tempo specification
tempo_mappings ==
    << DeviceMapping("looper", 1, None, OscDest("desk")),
       DeviceMapping("amp", 1, Some(2), RtpMidi("main")),
       DeviceMapping("ghost", 1, Some(1), RtpMidi("main")),
       DeviceMapping("delay", 2, Some(3), RtpMidi("main")),
       DeviceMapping("pedal", 2, Some(4), RtpMidi("main")) >>

\* the mappings of the program-change specification, which loads them in
\* every order
midi_mappings ==
    << DeviceMapping("looper", 1, None, OscDest("desk")),
       DeviceMapping("ghost", 1, Some(1), RtpMidi("main")),
       DeviceMapping("delay", 1, Some(3), RtpMidi("main")),
       DeviceMapping("amp", 1, Some(2), RtpMidi("main")) >>

\* mappings of the program-change specification that listen on channel 2:
\* the rig against an OSC destination that exists, against a session that
\* does not, and without a send channel against an OSC destination that does not
fault_mappings ==
    << DeviceMapping("rig", 2, Some(5), OscDest("desk")),
       DeviceMapping("rig", 2, Some(5), RtpMidi("gone")),
       DeviceMapping("rig", 2, None, OscDest("lost")) >>

(***************************************************************************)
(* Program constants.                                                      *)
(***************************************************************************)
\* send_tap_tempo: `for i in 0..4`
Taps == 4
\* send_tap_tempo: `if i < 3` (a wait follows every tap but the last)
LastTap == 3

\* BPM values carried by inbound /tempo/raw messages
BPMs == {120}
\* the OSC sources of MapConfig.osc_sources, one listener task each
Sources == {"osc_a", "osc_b"}

(***************************************************************************)
(* State.                                                                  *)
(***************************************************************************)
VARIABLES
    now,               \* the latest reading of SystemTime::now(), in nanoseconds
    tap_tempo_cancel,  \* value held by the watch channel (tap_tempo_cancel_tx)
    version,           \* version of the watch channel: number of sends so far
    rx_seen,           \* version last seen by self.tap_tempo_cancel_rx
    current_bpm,       \* MidiProcessor.current_bpm
    inbox,             \* per OSC source: datagrams waiting in the UDP socket
    arrived,           \* datagrams that have arrived so far, on any source
    task,              \* per OSC source: state of its listener task
    started,           \* number of tempo updates whose handling has started
    pubOrder,          \* start order of the update that published tap_tempo_cancel
    device_mappings,   \* MapConfig.device_mappings, as loaded at startup
    handler,           \* the spawned MIDI tasks: state of process_midi_message
    call               \* one delivery of a command: send_raw_tempo / execute_command

vars == << now, tap_tempo_cancel, version, rx_seen, current_bpm, inbox, arrived,
           task, started, pubOrder, device_mappings, handler, call >>

tempoVars == << now, tap_tempo_cancel, version, rx_seen, current_bpm, inbox, arrived,
                task, started, pubOrder >>

midiVars == << device_mappings, handler >>

callVars == << call >>

(***************************************************************************)
(* Command execution (processor.rs, execute_command and the send_* it      *)
(* calls): which path a command takes for a destination and send channel.  *)
(*   "transport"  the message is handed to the socket / the session        *)
(*   anything else: a warning is logged, nothing is sent, Ok(()) returned  *)
(***************************************************************************)
send_midi_to_session(session_name) ==
    IF session_name \in sessions THEN "transport" ELSE "no_session"

\* send_midi_command handing a Program Change to the socket of an OSC
\* destination instead of skipping it
send_midi_command_to_socket(destination) ==
    IF destination.type = "rtp_midi"
    THEN send_midi_to_session(destination.name)
    ELSE IF destination.name \in osc_destinations THEN "transport" ELSE "no_destination"

send_midi_command(destination) ==
    IF destination.type = "rtp_midi"
    THEN send_midi_to_session(destination.name)
    ELSE "mismatch"

send_osc_command(destination) ==
    IF destination.type = "osc"
    THEN IF destination.name \in osc_destinations THEN "transport" ELSE "no_destination"
    ELSE "mismatch"

send_midi_control_change(destination) ==
    IF destination.type = "rtp_midi"
    THEN send_midi_to_session(destination.name)
    ELSE "mismatch"

\* execute_command calling the MIDI sends whether or not the mapping has a
\* send channel
execute_command_without_channel(command, destination, channel) ==
    IF command.type = "program_change" THEN send_midi_command(destination)
    ELSE IF command.type = "control_change" THEN send_midi_control_change(destination)
    ELSE send_osc_command(destination)

execute_command(command, destination, channel) ==
    IF command.type = "program_change"
    THEN IF channel # None THEN send_midi_command(destination) ELSE "no_channel"
    ELSE IF command.type = "control_change"
    THEN IF channel # None THEN send_midi_control_change(destination) ELSE "no_channel"
    ELSE send_osc_command(destination)

\* the configuration read guards a send_* function itself holds when it
\* hands the message to the transport: send_osc_command takes
\* map_config.read() at line 485 and keeps it through socket.send_to (510);
\* the MIDI sends take none on the path that reaches the session
send_guards(command) ==
    IF command.type = "osc" THEN {"map_config"} ELSE {}

\* Outcomes with a name that does not resolve treated as a failed send
Outcomes_unknown_name_fails(via) ==
    IF via \in {"transport", "no_session", "no_destination"} THEN {"ok", "err"} ELSE {"ok"}

\* the outcomes a dispatch can have: a transport send succeeds or fails
\* (socket.send_to(..)?, session.send_midi(..).await?); a skipped command is Ok
Outcomes(via) == IF via = "transport" THEN {"ok", "err"} ELSE {"ok"}

\* the configuration locks of the processor (tokio::sync::RwLock)
ConfigLocks == {"map_config", "device_config"}

\* the tasks that request the write guard of a configuration lock: the only
\* write() calls of the program are on current_bpm (processor.rs 72) and on
\* the sessions of the session manager (session_manager.rs 23)
write_requests(lock) == {}

\* the read guards of a configuration lock that are out: a program-change
\* handler keeps its two guards from line 88-89 to its return; every other
\* read guard is taken and dropped within one step
readers(lock) == Cardinality({n \in 1..Len(handler) : lock \in handler[n].guards})

\* a lock that hands out one guard at a time, as a mutex does
read_one_at_a_time(lock) == write_requests(lock) = {} /\ readers(lock) = 0

\* RwLock::read().await: tokio serves the requests in order; a read guard is
\* granted next to any number of read guards, and waits only for a write
\* request that holds the lock or is queued before it
read(lock) == write_requests(lock) = {}

\* the configuration locks a send_* function acquires: send_osc_command for
\* an OSC destination (line 485), send_midi_command and
\* send_midi_control_change in their OSC-destination branch (lines 406, 458)
acquires(command, destination, channel) ==
    IF destination.type # "osc" THEN {}
    ELSE IF command.type = "osc" \/ channel # None THEN {"map_config"}
    ELSE {}


(***************************************************************************)
(* Numbers.  The f32 / f64 values of the program are modelled exactly: a   *)
(* finite value is a fraction in lowest terms, and a division by zero      *)
(* gives what IEEE 754 gives, NaN for 0/0 and an infinity otherwise.       *)
(***************************************************************************)
RECURSIVE GCD(_, _)
GCD(a, b) == IF b = 0 THEN a ELSE GCD(b, a % b)

Abs(x) == IF x < 0 THEN -x ELSE x

Finite(n, d) == [kind |-> "finite", num |-> n, den |-> d]
NaN == [kind |-> "nan", num |-> 0, den |-> 0]
Infinity(sign) == [kind |-> "inf", num |-> sign, den |-> 0]

\* the float n / d for whole numbers n and d
Divide(n, d) ==
    IF d = 0 THEN IF n = 0 THEN NaN ELSE Infinity(IF n > 0 THEN 1 ELSE -1)
    ELSE LET g == GCD(Abs(n), Abs(d))
             s == IF d < 0 THEN -1 ELSE 1
         IN  Finite((s * n) \div g, (s * d) \div g)

\* a whole number as a float
Whole(n) == Divide(n, 1)

\* a finite float truncated toward zero
Truncate(x) == IF x.num >= 0 THEN x.num \div x.den ELSE -((-x.num) \div x.den)

\* `x as i32` of a float: truncation toward zero, saturating at the edges
\* lo and hi of the integer type, NaN giving 0
Cast(x, lo, hi) ==
    IF x.kind = "nan" THEN 0
    ELSE IF x.kind = "inf" THEN (IF x.num > 0 THEN hi ELSE lo)
    ELSE IF Truncate(x) < lo THEN lo
    ELSE IF Truncate(x) > hi THEN hi
    ELSE Truncate(x)

I32Max == 2147483647
I32Min == -I32Max - 1

(***************************************************************************)
(* OscArg (device.rs) and the values computed from the tempo.              *)
(***************************************************************************)
FloatArg(v) == [type |-> "float", value |-> v]
IntArg(v) == [type |-> "int", value |-> v]
StringArg(v) == [type |-> "string", value |-> v]
BoolArg(v) == [type |-> "bool", value |-> v]
Normalized(v, lo, hi) == [type |-> "normalized", value |-> v, min |-> lo, max |-> hi]

\* tempo_value giving the quarter note in seconds: the * 1000.0 left out
tempo_value_in_seconds(data_type, bpm) ==
    IF data_type = "tempo" THEN Whole(bpm) ELSE Divide(60, bpm)

\* send_raw_tempo, lines 270-276: the value to send.  For the whole BPMs of
\* the model 60.0 / bpm * 1000.0 truncates and scales as 60000 / bpm does.
tempo_value(data_type, bpm) ==
    IF data_type = "tempo" THEN Whole(bpm) ELSE Divide(60000, bpm)

\* send_tap_tempo, line 213: (60.0 / bpm * 1000.0) as u64, for bpm >= 1;
\* the cast saturates at 0, and 60000 / bpm is far below the upper edge
quarter_note_ms(bpm) ==
    IF Truncate(Divide(60000, bpm)) < 0 THEN 0 ELSE Truncate(Divide(60000, bpm))

\* scale_to_cc without the clamp
scale_to_cc_unclamped(n, d) == (n * 127) \div d

\* (x * 127.0).clamp(0.0, 127.0) as u8 for the finite x = n / d (d > 0)
scale_to_cc(n, d) ==
    IF n <= 0 THEN 0
    ELSE IF n >= d THEN 127
    ELSE (n * 127) \div d

\* send_raw_tempo, lines 315-321: the CC value for the finite value v
cc_value(data_type, v) ==
    IF data_type = "tempo"
    THEN scale_to_cc(v.num - 60 * v.den, 120 * v.den)
    ELSE scale_to_cc(1000 * v.den - v.num, 667 * v.den)

\* raw_tempo_arg leaving an Int argument as configured
raw_tempo_arg_floats_only(arg, v) ==
    IF arg.type = "float" THEN FloatArg(v)
    ELSE IF arg.type = "normalized"
    THEN FloatArg(Divide(v.num - arg.min * v.den, v.den * (arg.max - arg.min)))
    ELSE arg

\* send_raw_tempo, lines 296-305: one OSC argument with the value put in
raw_tempo_arg(arg, v) ==
    IF arg.type = "float" THEN FloatArg(v)
    ELSE IF arg.type = "int" THEN IntArg(Cast(v, I32Min, I32Max))
    ELSE IF arg.type = "normalized"
    THEN FloatArg(Divide(v.num - arg.min * v.den, v.den * (arg.max - arg.min)))
    ELSE arg

\* send_raw_tempo, lines 289-337: the command handed to execute_command.  The
\* Control Change built at lines 328-331 names the controller and the new
\* value only; it is given the channel field of the configured command
raw_tempo_command(command, data_type, bpm) ==
    LET v == tempo_value(data_type, bpm)
    IN  IF command.type = "osc"
        THEN OscWith(command.address,
                     [j \in 1..Len(command.args) |-> raw_tempo_arg(command.args[j], v)])
        ELSE IF command.type = "control_change"
        THEN ControlChange(command.channel, command.controller, cc_value(data_type, v))
        ELSE command

\* send_osc_command, lines 488-499: the OscType of one argument
osc_type(arg) ==
    IF arg.type = "normalized"
    THEN [tag |-> "Float", value |-> Divide(arg.value - arg.min, arg.max - arg.min)]
    ELSE IF arg.type = "float" THEN [tag |-> "Float", value |-> arg.value]
    ELSE IF arg.type = "int" THEN [tag |-> "Int", value |-> arg.value]
    ELSE IF arg.type = "bool" THEN [tag |-> "Bool", value |-> arg.value]
    ELSE [tag |-> "String", value |-> arg.value]

\* send_osc_command, lines 501-504: the OscMessage.  The f32 fields of a
\* Normalized argument of the configuration are whole numbers here, the
\* value of a Float argument is a float
osc_message(command) ==
    [addr |-> command.address,
     args |-> [j \in 1..Len(command.args) |-> osc_type(command.args[j])]]

\* send_midi_command / send_midi_control_change, lines 390-391 and 440-442
midi_channel(channel) == (IF channel = 0 THEN 0 ELSE channel - 1) % 16
\* midi_message_for taking the channel from the command's own channel field
midi_message_for_command_channel(command, channel) ==
    IF command.type = "program_change"
    THEN [status |-> "ProgramChange", channel |-> midi_channel(command.channel),
          data |-> << command.program % 128 >>]
    ELSE [status |-> "ControlChange", channel |-> midi_channel(command.channel),
          data |-> << command.controller % 128, command.value % 128 >>]

midi_message_for(command, channel) ==
    IF command.type = "program_change"
    THEN [status |-> "ProgramChange", channel |-> midi_channel(channel),
          data |-> << command.program % 128 >>]
    ELSE [status |-> "ControlChange", channel |-> midi_channel(channel),
          data |-> << command.controller % 128, command.value % 128 >>]

\* no delivery is under way
NoCall ==
    [stage |-> "none", bpm |-> 0, data_type |-> "tempo", channel |-> 0,
     given |-> Osc("/none"), command |-> Osc("/none"), value |-> None,
     wire |-> None, result |-> "none"]

(***************************************************************************)
(* update_device_tempos, lines 137-159: one entry for every mapping whose  *)
(* device exists and has a tempo spec, in mapping order.  The entry is the *)
(* index of the mapping; the configuration never changes, so this stands   *)
(* for the cloned (tempo_spec, destination, channel), which Update gives.  *)
(***************************************************************************)
RECURSIVE CollectFrom(_, _)
CollectFrom(mappings, n) ==
    IF n > Len(mappings) THEN << >>
    ELSE LET device == get_device(mappings[n].device_id)
         IN  IF device # None /\ device[1].tempo_spec # NoTempo
             THEN << n >> \o CollectFrom(mappings, n + 1)
             ELSE CollectFrom(mappings, n + 1)

tempo_updates == CollectFrom(device_mappings, 1)

\* the tuple pushed for mapping m (lines 150-154)
Update(m) ==
    [ tempo_spec  |-> devices[device_mappings[m].device_id].tempo_spec,
      destination |-> device_mappings[m].destination,
      channel     |-> device_mappings[m].send_channel ]

(***************************************************************************)
(* The listener task of one OSC source (osc_listener.rs, start_listener):  *)
(* it receives a datagram and awaits its whole handling inline, so the     *)
(* fields below are the locals of the one update it is handling.           *)
(***************************************************************************)
IdleTask ==
    [ pc            |-> "recv",   \* position of the listener task
      bpm           |-> 0,        \* handle_osc_tempo argument
      cancel_signal |-> 0,        \* update_device_tempos local
      cancel_id     |-> 0,        \* operation_id, passed down as cancel_id
      updates       |-> << >>,    \* update_device_tempos local tempo_updates
      di            |-> 0,        \* index of the fan-out loop (line 170)
      i             |-> 0,        \* tap index of send_tap_tempo (line 223)
      k             |-> 0,        \* index into the command list
      cancel_rx     |-> 0,        \* version seen by the cancel_rx clone (line 239)
      sleep_done    |-> FALSE,    \* sleep_future has elapsed
      sent          |-> << >>,    \* commands this update has dispatched
      ends          |-> << >>,    \* how each device's delivery ended
      result        |-> "none",   \* Result of the last handling
      order         |-> 0,        \* start order of this update
      superseded    |-> FALSE,    \* another value replaced the run epoch
      stale_start   |-> FALSE,    \* ... before the delivery to this device began
      overtaken     |-> FALSE,    \* an update that started later has published
      interrupted   |-> FALSE ]   \* ... while this sequence was in a wait

InTapSequence(r) == r.pc \in {"tap_check", "tap_exec", "tap_wait", "tap_woken"}
InFanOut(r) == InTapSequence(r) \/ r.pc = "raw_exec"
InWait(r) == r.pc \in {"tap_wait", "tap_woken"}

\* Returned with the Err leaving the listener loop, as a `?` on the call of
\* handle_osc_packet would have it
Returned_leaving_the_loop(r, res) ==
    [r EXCEPT !.pc = IF res = "err" THEN "stopped" ELSE "recv", !.result = res,
              !.di = 0, !.i = 0, !.k = 0, !.cancel_rx = 0, !.sleep_done = FALSE,
              !.stale_start = FALSE]

\* the position a returned handling leaves the listener task in: the loop
\* of start_listener logs an Err and receives again (osc_listener.rs 45-57)
Returned(r, res) ==
    [r EXCEPT !.pc = "recv", !.result = res, !.di = 0, !.i = 0, !.k = 0,
              !.cancel_rx = 0, !.sleep_done = FALSE, !.stale_start = FALSE]

\* update_device_tempos, lines 170-175, and send_tempo_update: delivery to
\* device d of the fan-out begins, or the loop is over and Ok(()) returned
RECURSIVE send_tempo_update(_, _)
send_tempo_update(r, d) ==
    IF d > Len(r.updates) THEN Returned(r, "ok")
    ELSE LET spec == Update(r.updates[d]).tempo_spec IN
         IF spec.type = "tap_tempo"
         THEN [r EXCEPT !.pc = "tap_check", !.di = d, !.i = 0, !.k = 0,
                        !.interrupted = FALSE, !.stale_start = r.superseded]
         ELSE IF spec.commands = << >>
              THEN send_tempo_update([r EXCEPT !.ends = Append(@, "raw")], d + 1)
              ELSE [r EXCEPT !.pc = "raw_exec", !.di = d, !.i = 0, !.k = 1,
                             !.stale_start = r.superseded]

\* tap_return with a halt on the epoch returned as an Err, which the `?` of
\* the fan-out loop would pass on
tap_return_halt_is_error(r, how) ==
    IF how = "halted"
    THEN Returned([r EXCEPT !.ends = Append(@, how)], "err")
    ELSE send_tempo_update([r EXCEPT !.ends = Append(@, how), !.sleep_done = FALSE,
                                     !.cancel_rx = 0], r.di + 1)

\* send_tap_tempo returns Ok(()): how it ended is noted, the fan-out goes on
tap_return(r, how) ==
    send_tempo_update([r EXCEPT !.ends = Append(@, how), !.sleep_done = FALSE,
                                !.cancel_rx = 0], r.di + 1)

\* self.tap_tempo_cancel_rx.clone(): the clone starts from the version its
\* original has seen
clone == rx_seen

\* after_tap with the loop bound off by one: the sequence ends a tap early
after_tap_one_short(r) ==
    IF r.i < LastTap - 1
    THEN [r EXCEPT !.pc = "tap_wait", !.k = 0, !.sleep_done = FALSE, !.cancel_rx = clone]
    ELSE tap_return(r, "completed")

\* after_tap with a wait that nothing ends: no sleep, no change of the channel
after_tap_parked(r) ==
    IF r.i < LastTap
    THEN [r EXCEPT !.pc = "tap_parked", !.k = 0, !.sleep_done = FALSE, !.cancel_rx = clone]
    ELSE tap_return(r, "completed")

\* send_tap_tempo, lines 235-253: after the commands of tap i
after_tap(r) ==
    IF r.i < LastTap
    THEN [r EXCEPT !.pc = "tap_wait", !.k = 0, !.sleep_done = FALSE, !.cancel_rx = clone]
    ELSE tap_return(r, "completed")

\* send_tap_tempo, line 223: the next tap of the for loop
next_tap(r) ==
    [r EXCEPT !.pc = "tap_check", !.i = @ + 1, !.k = 0, !.sleep_done = FALSE,
              !.cancel_rx = 0]

\* what a send on the watch channel means for the other updates in flight
Observe(r, v, o) ==
    [r EXCEPT !.superseded = @ \/ (InFanOut(r) /\ v # r.cancel_id),
              !.overtaken = @ \/ (InFanOut(r) /\ o > r.order),
              !.interrupted = @ \/ (InWait(r) /\ v # r.cancel_id)]

\* tap_tempo_cancel_tx.send(v) by the listener task of s, which moves to r
Publish(s, v, r) ==
    /\ tap_tempo_cancel' = v
    /\ version' = version + 1
    /\ pubOrder' = task[s].order
    /\ task' = [t \in Sources |-> IF t = s THEN r ELSE Observe(task[t], v, task[s].order)]

(***************************************************************************)
(* Actions of the tempo path.                                              *)
(***************************************************************************)
\* a /tempo/raw datagram reaches the UDP socket of source s
osc_arrives(s) ==
    /\ arrived < MaxPackets
    /\ \E b \in BPMs : inbox' = [inbox EXCEPT ![s] = Append(@, b)]
    /\ arrived' = arrived + 1
    /\ UNCHANGED << now, tap_tempo_cancel, version, rx_seen, current_bpm,
                    task, started, pubOrder, midiVars, callVars >>

\* start_listener: recv_from returns and the packet is handled inline;
\* handle_osc_tempo stores the bpm, update_device_tempos reads the clock,
\* which has stood still or advanced since it was last read
handle_osc_tempo(s) ==
    /\ task[s].pc = "recv"
    /\ inbox[s] # << >>
    /\ inbox' = [inbox EXCEPT ![s] = Tail(@)]
    /\ current_bpm' = Some(Head(inbox[s]))
    /\ started' = started + 1
    /\ \E nanos \in now..MaxClock :
          /\ now' = nanos
          /\ task' = [task EXCEPT ![s] =
                        [IdleTask EXCEPT !.pc = "send_cancel", !.bpm = Head(inbox[s]),
                                         !.cancel_signal = nanos, !.order = started + 1]]
    /\ UNCHANGED << tap_tempo_cancel, version, rx_seen, arrived,
                    pubOrder, midiVars, callVars >>

\* update_device_tempos, line 133: publish the cancel value
publish_cancel(s) ==
    /\ task[s].pc = "send_cancel"
    /\ Publish(s, task[s].cancel_signal, [task[s] EXCEPT !.pc = "collect"])
    /\ UNCHANGED << now, rx_seen, current_bpm, inbox, arrived, started, midiVars, callVars >>

\* update_device_tempos, lines 137-163: collect under the read locks, release
\* them, mint the operation id
collect_tempo_updates(s) ==
    /\ task[s].pc = "collect"
    /\ \A lock \in ConfigLocks : read(lock)
    /\ task' = [task EXCEPT ![s] =
                  [@ EXCEPT !.pc = "send_run", !.updates = tempo_updates,
                            !.cancel_id = task[s].cancel_signal + 1]]
    /\ UNCHANGED << now, tap_tempo_cancel, version, rx_seen, current_bpm, inbox,
                    arrived, started, pubOrder, midiVars, callVars >>

\* update_device_tempos, lines 166-170: publish the operation id, start the fan-out
publish_run(s) ==
    /\ task[s].pc = "send_run"
    /\ Publish(s, task[s].cancel_id, send_tempo_update(task[s], 1))
    /\ UNCHANGED << now, rx_seen, current_bpm, inbox, arrived, started, midiVars, callVars >>

\* send_tap_tempo, lines 225-228: the epoch check at the head of each tap
tap_check(s) ==
    LET r == task[s] IN
    /\ r.pc = "tap_check"
    /\ task' = [task EXCEPT ![s] =
                  IF tap_tempo_cancel # r.cancel_id THEN tap_return(r, "halted")
                  ELSE IF Update(r.updates[r.di]).tempo_spec.commands = << >> THEN after_tap(r)
                  ELSE [r EXCEPT !.pc = "tap_exec", !.k = 1]]
    /\ UNCHANGED << now, tap_tempo_cancel, version, rx_seen, current_bpm, inbox,
                    arrived, started, pubOrder, midiVars, callVars >>

\* one pass of a command loop (lines 231-233 / 289-339): command k is
\* dispatched; an Err leaves the whole handling through the `?`s
dispatch(r, out, after) ==
    LET u   == Update(r.updates[r.di])
        via == execute_command(u.tempo_spec.commands[r.k], u.destination, u.channel)
        r2  == [r EXCEPT !.sent = Append(@,
                   [dev |-> r.di, cmd |-> r.k, via |-> via, out |-> out,
                    held |-> send_guards(u.tempo_spec.commands[r.k])])]
    IN  IF out = "err" THEN Returned([r2 EXCEPT !.ends = Append(@, "failed")], "err")
        ELSE IF r.k < Len(u.tempo_spec.commands) THEN [r2 EXCEPT !.k = @ + 1]
        ELSE IF after = "tap" THEN after_tap(r2)
        ELSE send_tempo_update([r2 EXCEPT !.ends = Append(@, "raw")], r.di + 1)

DispatchAcquires(r) ==
    LET u == Update(r.updates[r.di])
    IN  acquires(u.tempo_spec.commands[r.k], u.destination, u.channel)

DispatchOutcomes(r) ==
    LET u == Update(r.updates[r.di])
    IN  Outcomes(execute_command(u.tempo_spec.commands[r.k], u.destination, u.channel))

\* send_tap_tempo, lines 231-233
tap_execute(s) ==
    /\ task[s].pc = "tap_exec"
    /\ \A lock \in DispatchAcquires(task[s]) : read(lock)
    /\ \E out \in DispatchOutcomes(task[s]) :
          task' = [task EXCEPT ![s] = dispatch(task[s], out, "tap")]
    /\ UNCHANGED << now, tap_tempo_cancel, version, rx_seen, current_bpm, inbox,
                    arrived, started, pubOrder, midiVars, callVars >>

\* tokio::time::sleep(quarter_note_ms) elapses
sleep_elapses(s) ==
    /\ task[s].pc = "tap_wait"
    /\ ~task[s].sleep_done
    /\ task' = [task EXCEPT ![s] = [@ EXCEPT !.sleep_done = TRUE]]
    /\ UNCHANGED << now, tap_tempo_cancel, version, rx_seen, current_bpm, inbox,
                    arrived, started, pubOrder, midiVars, callVars >>

\* select!, lines 242-244: the sleep branch
select_sleep(s) ==
    /\ task[s].pc = "tap_wait"
    /\ task[s].sleep_done
    /\ task' = [task EXCEPT ![s] = next_tap(@)]
    /\ UNCHANGED << now, tap_tempo_cancel, version, rx_seen, current_bpm, inbox,
                    arrived, started, pubOrder, midiVars, callVars >>

\* select!, line 245: cancel_rx.changed() is ready when the channel's
\* version differs from the one the clone has seen, and marks it seen
select_changed(s) ==
    /\ task[s].pc = "tap_wait"
    /\ version # task[s].cancel_rx
    /\ task' = [task EXCEPT ![s] = [@ EXCEPT !.pc = "tap_woken", !.cancel_rx = version]]
    /\ UNCHANGED << now, tap_tempo_cancel, version, rx_seen, current_bpm, inbox,
                    arrived, started, pubOrder, midiVars, callVars >>

\* lines 247-250: the value is read after the wake-up
woken_check(s) ==
    LET r == task[s] IN
    /\ r.pc = "tap_woken"
    /\ task' = [task EXCEPT ![s] =
                  IF tap_tempo_cancel # r.cancel_id THEN tap_return(r, "halted")
                  ELSE next_tap(r)]
    /\ UNCHANGED << now, tap_tempo_cancel, version, rx_seen, current_bpm, inbox,
                    arrived, started, pubOrder, midiVars, callVars >>

\* send_raw_tempo, lines 289-339: one command of the raw-tempo list
raw_execute(s) ==
    /\ task[s].pc = "raw_exec"
    /\ \A lock \in DispatchAcquires(task[s]) : read(lock)
    /\ \E out \in DispatchOutcomes(task[s]) :
          task' = [task EXCEPT ![s] = dispatch(task[s], out, "raw")]
    /\ UNCHANGED << now, tap_tempo_cancel, version, rx_seen, current_bpm, inbox,
                    arrived, started, pubOrder, midiVars, callVars >>

(***************************************************************************)
(* The tempo specification: the OSC listeners of the sources.              *)
(***************************************************************************)
Init ==
    /\ now = 1
    /\ tap_tempo_cancel = 0
    /\ version = 0
    /\ rx_seen = 0
    /\ current_bpm = None
    /\ inbox = [s \in Sources |-> << >>]
    /\ arrived = 0
    /\ task = [s \in Sources |-> IdleTask]
    /\ started = 0
    /\ pubOrder = 0
    /\ device_mappings = tempo_mappings
    /\ handler = << >>
    /\ call = NoCall

Next ==
    \/ \E s \in Sources : osc_arrives(s)
    \/ \E s \in Sources : handle_osc_tempo(s)
    \/ \E s \in Sources : publish_cancel(s)
    \/ \E s \in Sources : collect_tempo_updates(s)
    \/ \E s \in Sources : publish_run(s)
    \/ \E s \in Sources : tap_check(s)
    \/ \E s \in Sources : tap_execute(s)
    \/ \E s \in Sources : sleep_elapses(s)
    \/ \E s \in Sources : select_sleep(s)
    \/ \E s \in Sources : select_changed(s)
    \/ \E s \in Sources : woken_check(s)
    \/ \E s \in Sources : raw_execute(s)

Spec == Init /\ [][Next]_vars

(***************************************************************************)
(* The tempo specification under fair scheduling: the runtime polls a      *)
(* listener task that can step (a datagram is waiting, a send returns, a   *)
(* timer has fired, the watch channel reports a change).  Whether another  *)
(* datagram arrives is up to the senders.                                  *)
(***************************************************************************)
\* a step of the listener task of source s
ListenerStep(s) ==
    \/ handle_osc_tempo(s)
    \/ publish_cancel(s)
    \/ collect_tempo_updates(s)
    \/ publish_run(s)
    \/ tap_check(s)
    \/ tap_execute(s)
    \/ sleep_elapses(s)
    \/ select_sleep(s)
    \/ select_changed(s)
    \/ woken_check(s)
    \/ raw_execute(s)

LiveSpec == Init /\ [][Next]_vars /\ \A s \in Sources : WF_vars(ListenerStep(s))

(***************************************************************************)
(* Properties of the tempo path.                                           *)
(***************************************************************************)
\* the update s is handling dispatches a command in this step
Emits(s) ==
    /\ task'[s].order = task[s].order
    /\ Len(task'[s].sent) > Len(task[s].sent)

\* a tap-tempo sequence of the update s is handling halts on the epoch in this step
Halts(s) ==
    /\ task'[s].order = task[s].order
    /\ Len(task'[s].ends) > Len(task[s].ends)
    /\ task'[s].ends[Len(task[s].ends) + 1] = "halted"

\* the commands (by index) the update has dispatched to device d of its fan-out
RECURSIVE SentTo(_, _)
SentTo(sent, d) ==
    IF sent = << >> THEN << >>
    ELSE IF Head(sent).dev = d THEN << Head(sent).cmd >> \o SentTo(Tail(sent), d)
    ELSE SentTo(Tail(sent), d)

\* the command list 1..n replayed t times
RECURSIVE Replay(_, _)
Replay(n, t) == IF t = 0 THEN << >> ELSE [j \in 1..n |-> j] \o Replay(n, t - 1)

\* C1: once an update that started later has published an epoch (its cancel
\* value or its run value) while the earlier update was delivering, a
\* tap-tempo sequence of the earlier update dispatches no further command.
C1_NoTapCommandAfterLaterPublish ==
    [][\A s \in Sources :
          (InTapSequence(task[s]) /\ task[s].overtaken) => ~Emits(s)]_vars

\* C2: a tap-tempo sequence is never halted by an epoch value that an
\* update which started earlier has published.
C2_LaterUpdateNeverHaltedByEarlier ==
    [][\A s \in Sources : Halts(s) => pubOrder >= task[s].order]_vars

\* C3: the published epoch never decreases.
C3_EpochNeverDecreases ==
    [][tap_tempo_cancel' >= tap_tempo_cancel]_vars

\* C4: an update whose run epoch has been replaced by a later publish
\* dispatches no further command, tap or raw.
C4_StaleUpdateEmitsNothing ==
    [][\A s \in Sources :
          (InFanOut(task[s]) /\ task[s].superseded) => ~Emits(s)]_vars

\* C5: when the update is not superseded and the delivery to a tap-tempo
\* device ended without a failed send, it ended by completing, and its command
\* list was dispatched exactly Taps times, each time in declared order.
C5_FourTapsInOrder ==
    \A s \in Sources : \A d \in 1..Len(task[s].ends) :
        LET r == task[s]
            spec == Update(r.updates[d]).tempo_spec
        IN  (spec.type = "tap_tempo" /\ ~r.superseded /\ r.ends[d] # "failed")
            => /\ r.ends[d] = "completed"
               /\ SentTo(r.sent, d) = Replay(Len(spec.commands), Taps)

\* C5 witness: an update that was never superseded has completed both its
\* two-command and its single-command tap-tempo sequence.
C5_Witness ==
    \E s \in Sources :
        LET r == task[s]
        IN  /\ ~r.superseded
            /\ r.result = "ok"
            /\ Len(r.ends) = 3
            /\ r.ends[1] = "completed" /\ r.ends[3] = "completed"
            /\ SentTo(r.sent, 1) = << 1, 2, 1, 2, 1, 2, 1, 2 >>
            /\ SentTo(r.sent, 3) = << 1, 1, 1, 1 >>

\* C6: in a sequence that is not superseded the next tap starts only after
\* the sleep started after the previous tap has elapsed.
C6_WaitLastsFullInterval ==
    [][\A s \in Sources :
          ( /\ InWait(task[s]) /\ ~task[s].superseded
            /\ task'[s].order = task[s].order
            /\ task'[s].pc = "tap_check" /\ task'[s].i = task[s].i + 1 )
          => task[s].sleep_done]_vars

\* C7: a sequence whose wait saw the published epoch change to a value
\* other than its run epoch dispatches no further command.
C7_InterruptedWaitHalts ==
    [][\A s \in Sources :
          (InTapSequence(task[s]) /\ task[s].interrupted) => ~Emits(s)]_vars

\* C8: a tempo datagram waiting on a source whose earlier update is still in
\* its tap-tempo sequence can be taken up at once.
C8_TempoUpdatesHandledIndependently ==
    \A s \in Sources :
        (inbox[s] # << >> /\ InTapSequence(task[s])) => ENABLED handle_osc_tempo(s)

\* the update s handles, or handled last, has minted its run epoch
Minted(s) == task[s].cancel_id # 0

\* C19: the run epoch of a tempo update is greater than its own cancel epoch
\* and greater than the run epoch of every update that started before it, so
\* no two updates share a run epoch.
C19_RunEpochsStrictlyIncrease ==
    \A s \in Sources :
        Minted(s)
        => /\ task[s].cancel_id > task[s].cancel_signal
           /\ \A t \in Sources :
                 (Minted(t) /\ task[t].order < task[s].order)
                 => task[t].cancel_id < task[s].cancel_id

\* the update s is handling dispatches a command to device d of its fan-out
\* in this step
DeliversTo(s, d) ==
    /\ tap_execute(s) \/ raw_execute(s)
    /\ task'[s].sent[Len(task'[s].sent)].dev = d

\* C21: while the tap-tempo sequence of one device waits out its paced
\* interval, the delivery to every later device of the same update that has
\* commands does not wait for it: a command can be dispatched to that device.
C21_DevicesDeliveredIndependently ==
    \A s \in Sources : \A d \in 1..Len(task[s].updates) :
        ( /\ InWait(task[s])
          /\ d > task[s].di
          /\ Update(task[s].updates[d]).tempo_spec.commands # << >> )
        => ENABLED DeliversTo(s, d)

\* The deliveries of one update follow one another: a command has been
\* dispatched to device d only when the deliveries to all devices before d
\* have ended.
DevicesDeliveredOneAfterTheOther ==
    \A s \in Sources : \A d \in 1..Len(task[s].updates) :
        SentTo(task[s].sent, d) # << >> => Len(task[s].ends) >= d - 1

\* the listener task of s takes the step of the epoch check at the head of a tap
ChecksEpoch(s) ==
    /\ task[s].pc = "tap_check"
    /\ task'[s].pc # "tap_check" \/ Len(task'[s].ends) # Len(task[s].ends)

\* C22: a tap emits only after the epoch check at its head has found the
\* published epoch equal to the run epoch; a check that finds another value
\* ends the sequence as halted without emitting and without an error, the
\* fan-out goes on with the next device, and a halted sequence emits nothing
\* afterwards.
C22_EpochCheckedEachTap ==
    [][\A s \in Sources :
          /\ (task'[s].pc = "tap_exec" /\ task[s].pc # "tap_exec")
                => (task[s].pc = "tap_check" /\ tap_tempo_cancel = task[s].cancel_id)
          /\ (ChecksEpoch(s) /\ tap_tempo_cancel # task[s].cancel_id)
                => /\ Halts(s)
                   /\ ~Emits(s)
                   /\ task'[s].result # "err"
                   /\ IF task[s].di < Len(task[s].updates)
                      THEN InFanOut(task'[s]) /\ task'[s].di = task[s].di + 1
                      ELSE task'[s].pc = "recv" /\ task'[s].result = "ok"
          /\ \A d \in 1..Len(task[s].ends) :
                (task[s].ends[d] = "halted" /\ task'[s].order = task[s].order)
                => SentTo(task'[s].sent, d) = SentTo(task[s].sent, d)]_vars

\* C22 witness: the sequence of the first device was halted by its epoch
\* check and the update has gone on to dispatch to the second device.
C22_Witness ==
    \E s \in Sources :
        /\ Len(task[s].ends) >= 1
        /\ task[s].ends[1] = "halted"
        /\ SentTo(task[s].sent, 2) # << >>

\* C27: under fair scheduling the tap-tempo sequence of every device of an
\* update comes to its end, halted or completed, and the handling of every
\* tempo update returns to the listener loop: no listener task stays in the
\* sequence of one device, or away from its receive, for ever.
C27_SequencesTerminate ==
    \A s \in Sources :
        /\ \A d \in 1..Len(tempo_mappings) :
              []<>~(InTapSequence(task[s]) /\ task[s].di = d)
        /\ []<>(task[s].pc = "recv")

\* C27 witness: an update has returned after one of its sequences completed
\* its fourth tap and another was halted.
C27_Witness ==
    \E s \in Sources :
        /\ task[s].pc = "recv"
        /\ task[s].result = "ok"
        /\ \E d \in 1..Len(task[s].ends) : task[s].ends[d] = "completed"
        /\ \E d \in 1..Len(task[s].ends) : task[s].ends[d] = "halted"

\* C28: a tap-tempo sequence whose delivery began after the run epoch of its
\* update had been superseded, during the delivery to an earlier device,
\* dispatches no command, and its first epoch check halts it.
C28_LaterTapDevicesGetNothing ==
    [][\A s \in Sources :
          (InTapSequence(task[s]) /\ task[s].stale_start)
          => /\ ~Emits(s)
             /\ ChecksEpoch(s) => Halts(s)]_vars

\* mapping m names a device that exists and has a tempo spec
TempoCapable(m) ==
    LET device == get_device(device_mappings[m].device_id)
    IN  device # None /\ device[1].tempo_spec # NoTempo

\* the mappings that name device id
MappingsOf(id) == {m \in 1..Len(device_mappings) : device_mappings[m].device_id = id}

\* the deliveries of the returned update r are those of the tempo-capable
\* mappings: one each, in mapping order, every command sent as the mapping's
\* destination and send channel have it, k deliveries for a tempo-capable
\* device with k mappings and none for any other device
DeliveriesMatchMappings(r) ==
    /\ Len(r.ends) = Cardinality({m \in 1..Len(device_mappings) : TempoCapable(m)})
    /\ \A d \in 1..Len(r.ends) :
          /\ TempoCapable(r.updates[d])
          /\ d > 1 => r.updates[d - 1] < r.updates[d]
    /\ \A j \in 1..Len(r.sent) :
          LET m == r.updates[r.sent[j].dev]
              device == devices[device_mappings[m].device_id]
          IN  r.sent[j].via = execute_command(device.tempo_spec.commands[r.sent[j].cmd],
                                              device_mappings[m].destination,
                                              device_mappings[m].send_channel)
    /\ \A id \in DeviceIds :
          Cardinality({d \in 1..Len(r.ends) : r.updates[d] \in MappingsOf(id)})
             = IF devices[id].tempo_spec # NoTempo THEN Cardinality(MappingsOf(id)) ELSE 0

\* C30: when the handling of a tempo update has returned, it has performed
\* one delivery per mapping whose device exists and has a tempo spec, in
\* mapping order, with that mapping's destination and send channel.
C30_OneDeliveryPerTempoMapping ==
    \A s \in Sources :
        (task[s].pc = "recv" /\ task[s].result # "none")
        => DeliveriesMatchMappings(task[s])

\* It holds of every update whose handling returned Ok: the Err of a failed
\* send is what ends the fan-out before the remaining mappings.
OneDeliveryPerTempoMappingUnlessSendFails ==
    \A s \in Sources :
        (task[s].pc = "recv" /\ task[s].result = "ok")
        => DeliveriesMatchMappings(task[s])

(***************************************************************************)
(* The program-change path: router.rs spawns one task per MIDI message,    *)
(* which runs process_midi_message and so handle_program_change.           *)
(***************************************************************************)
\* MIDI messages the session delivers: program changes and anything else
MidiChannels == {1, 2}
ProgramNumbers == {1, 2}
MidiMessages ==
    [type : {"program_change"}, channel : MidiChannels, program : ProgramNumbers]
    \cup {[type |-> "other", channel |-> 0, program |-> 0]}

\* device.programs.iter().find(|p| p.number == program)
RECURSIVE find_program(_, _)
find_program(programs, number) ==
    IF programs = << >> THEN None
    ELSE IF Head(programs).number = number THEN Some(Head(programs))
    ELSE find_program(Tail(programs), number)

\* handle_program_change, lines 92-120: from mapping m on, the mappings are
\* scanned up to the next command to execute; a mapping whose device or
\* program is missing is warned about and passed over
RECURSIVE next_mapping(_, _)
next_mapping(h, m) ==
    IF m > Len(device_mappings)
    THEN [h EXCEPT !.pc = "done", !.result = "ok", !.mi = 0, !.ci = 0, !.guards = {}]
    ELSE LET mapping == device_mappings[m]
             device  == get_device(mapping.device_id)
             program == IF device = None THEN None
                        ELSE find_program(device[1].programs, h.program)
         IN  IF mapping.listen_channel # h.channel THEN next_mapping(h, m + 1)
             ELSE IF device = None
             THEN next_mapping([h EXCEPT !.warned =
                                   Append(@, [map |-> m, why |-> "no_device"])], m + 1)
             ELSE IF program = None
             THEN next_mapping([h EXCEPT !.warned =
                                   Append(@, [map |-> m, why |-> "no_program"])], m + 1)
             ELSE IF program[1].commands = << >> THEN next_mapping(h, m + 1)
             ELSE [h EXCEPT !.pc = "exec", !.mi = m, !.ci = 1]

\* current_commands with the list taken back to front
current_commands_reversed(h) ==
    LET cmds == find_program(devices[device_mappings[h.mi].device_id].programs,
                             h.program)[1].commands
    IN  [j \in 1..Len(cmds) |-> cmds[Len(cmds) + 1 - j]]

\* the command handle_program_change is about to execute
current_commands(h) ==
    find_program(devices[device_mappings[h.mi].device_id].programs, h.program)[1].commands

\* router.rs, lines 52-61: a MIDI message arrives and its task is spawned
midi_message ==
    /\ Len(handler) < MaxMidiEvents
    /\ \E msg \in MidiMessages :
          handler' = Append(handler,
              [ pc      |-> "start",    \* position of the spawned task
                message |-> msg.type,
                channel |-> msg.channel,
                program |-> msg.program,
                mi      |-> 0,          \* index of the mapping loop (line 92)
                ci      |-> 0,          \* index of the command loop (line 105)
                sent    |-> << >>,      \* commands dispatched so far
                warned  |-> << >>,      \* warnings logged for skipped mappings
                guards  |-> {},         \* configuration read guards the task holds
                result  |-> "none" ])
    /\ UNCHANGED << tempoVars, device_mappings, callVars >>

\* process_midi_message; handle_program_change takes the read locks and
\* runs up to its first command
process_midi_message(n) ==
    /\ handler[n].pc = "start"
    /\ handler[n].message = "program_change" => \A lock \in ConfigLocks : read(lock)
    /\ handler' = [handler EXCEPT ![n] =
                     IF handler[n].message = "program_change"
                     THEN next_mapping([handler[n] EXCEPT
                                           !.guards = {"map_config", "device_config"}], 1)
                     ELSE [handler[n] EXCEPT !.pc = "done", !.result = "ok"]]
    /\ UNCHANGED << tempoVars, device_mappings, callVars >>

\* handle_program_change, lines 105-112: the state of the handler after its
\* current command was executed with outcome out; an Err returns from the
\* handler (the `?` of line 111), dropping the read guards
after_command(h, out) ==
    LET mapping == device_mappings[h.mi]
        command == current_commands(h)[h.ci]
        via     == execute_command(command, mapping.destination, mapping.send_channel)
        h2      == [h EXCEPT !.sent = Append(@,
                       [map |-> h.mi, ci |-> h.ci, command |-> command,
                        destination |-> mapping.destination,
                        channel |-> mapping.send_channel, via |-> via, out |-> out,
                        held |-> h.guards \cup send_guards(command)])]
    IN  IF out = "err"
        THEN [h2 EXCEPT !.pc = "done", !.result = "err", !.mi = 0, !.ci = 0,
                        !.guards = {}]
        ELSE IF h.ci < Len(current_commands(h)) THEN [h2 EXCEPT !.ci = @ + 1]
        ELSE next_mapping(h2, h.mi + 1)

\* handle_program_change, lines 105-112: one command is executed
program_execute(n) ==
    /\ handler[n].pc = "exec"
    /\ \A lock \in acquires(current_commands(handler[n])[handler[n].ci],
                            device_mappings[handler[n].mi].destination,
                            device_mappings[handler[n].mi].send_channel) : read(lock)
    /\ \E out \in Outcomes(execute_command(current_commands(handler[n])[handler[n].ci],
                                           device_mappings[handler[n].mi].destination,
                                           device_mappings[handler[n].mi].send_channel)) :
          handler' = [handler EXCEPT ![n] = after_command(handler[n], out)]
    /\ UNCHANGED << tempoVars, device_mappings, callVars >>

\* every order in which the configuration file can list the mappings
MappingOrders ==
    LET n == Len(midi_mappings)
        perms == {f \in [1..n -> 1..n] : \A a, b \in 1..n : f[a] = f[b] => a = b}
    IN  {[j \in 1..n |-> midi_mappings[f[j]]] \o fault_mappings : f \in perms}

MidiInit ==
    /\ now = 1
    /\ tap_tempo_cancel = 0
    /\ version = 0
    /\ rx_seen = 0
    /\ current_bpm = None
    /\ inbox = [s \in Sources |-> << >>]
    /\ arrived = 0
    /\ task = [s \in Sources |-> IdleTask]
    /\ started = 0
    /\ pubOrder = 0
    /\ device_mappings \in MappingOrders
    /\ handler = << >>
    /\ call = NoCall

MidiNext ==
    \/ midi_message
    \/ \E n \in 1..Len(handler) : process_midi_message(n)
    \/ \E n \in 1..Len(handler) : program_execute(n)

MidiSpec == MidiInit /\ [][MidiNext]_vars



(***************************************************************************)
(* The router: the MIDI listener and the listener of one OSC source share  *)
(* the processor, with the configuration of the tempo specification.       *)
(***************************************************************************)
\* the OSC source that receives datagrams in this specification
RouterSources == {"osc_a"}

\* the events that have reached the router so far
RouterEvents == arrived + Len(handler)

\* a tempo datagram reaches the socket of source s
router_osc_arrives(s) == RouterEvents < MaxRouterEvents /\ osc_arrives(s)

\* a MIDI message reaches the session
router_midi_message == RouterEvents < MaxRouterEvents /\ midi_message

RouterNext ==
    \/ \E s \in RouterSources : router_osc_arrives(s)
    \/ \E s \in RouterSources : handle_osc_tempo(s)
    \/ \E s \in RouterSources : publish_cancel(s)
    \/ \E s \in RouterSources : collect_tempo_updates(s)
    \/ \E s \in RouterSources : publish_run(s)
    \/ \E s \in RouterSources : tap_check(s)
    \/ \E s \in RouterSources : tap_execute(s)
    \/ \E s \in RouterSources : sleep_elapses(s)
    \/ \E s \in RouterSources : select_sleep(s)
    \/ \E s \in RouterSources : select_changed(s)
    \/ \E s \in RouterSources : woken_check(s)
    \/ \E s \in RouterSources : raw_execute(s)
    \/ router_midi_message
    \/ \E n \in 1..Len(handler) : process_midi_message(n)
    \/ \E n \in 1..Len(handler) : program_execute(n)

RouterSpec == Init /\ [][RouterNext]_vars

(***************************************************************************)
(* The delivery of one command: send_raw_tempo puts the tempo into a       *)
(* command of a raw-tempo list, execute_command turns a command into the   *)
(* message handed to the transport.  The command, the BPM, the data type   *)
(* and the send channel are drawn from the sets below; the destination is  *)
(* one that exists and fits the command.                                   *)
(***************************************************************************)
BpmValues == 1..MaxBpm
ArgValues == 0..MaxArg

OscCommands ==
    {OscWith("/tempo", << a >>) :
        a \in {FloatArg(Whole(0)), IntArg(0), StringArg("bpm"), BoolArg(TRUE)}
              \cup {Normalized(v, lo, hi) : v \in ArgValues, lo \in ArgValues, hi \in ArgValues}}
    \cup {OscWith("/mixed", << IntArg(7), StringArg("bpm"), Normalized(1, 0, 2),
                              BoolArg(FALSE), FloatArg(Whole(3)) >>)}

\* values of the channel field of a configured MIDI command
CommandChannels == {1, 10}

MidiCommands ==
    {ControlChange(ch, c, v) : ch \in CommandChannels, c \in {20, 148}, v \in {0, 127, 200}}
    \cup {ProgramChange(ch, q) : ch \in CommandChannels, q \in {5, 133}}

SendChannels == {0, 1, 16, 17, 255}

Calls ==
    {[command |-> c, channel |-> 1] : c \in OscCommands}
    \cup {[command |-> c, channel |-> ch] : c \in MidiCommands, ch \in SendChannels}

\* send_raw_tempo, lines 289-337: the tempo is put into the command
substitute_tempo ==
    /\ call.stage = "given"
    /\ call' = [call EXCEPT !.stage = "substituted",
                            !.value = Some(tempo_value(call.data_type, call.bpm)),
                            !.command = raw_tempo_command(call.command, call.data_type,
                                                          call.bpm)]
    /\ UNCHANGED << tempoVars, midiVars >>

\* execute_command: the command, as configured or as send_raw_tempo made it,
\* becomes an OSC message or a MIDI message, which the transport takes or not
transmit ==
    /\ call.stage \in {"given", "substituted"}
    /\ \E out \in Outcomes("transport") :
          call' = [call EXCEPT
                     !.stage = "done",
                     !.wire = Some(IF call.command.type = "osc"
                                   THEN osc_message(call.command)
                                   ELSE midi_message_for(call.command, call.channel)),
                     !.result = out]
    /\ UNCHANGED << tempoVars, midiVars >>

CallInit ==
    /\ now = 1
    /\ tap_tempo_cancel = 0
    /\ version = 0
    /\ rx_seen = 0
    /\ current_bpm = None
    /\ inbox = [s \in Sources |-> << >>]
    /\ arrived = 0
    /\ task = [s \in Sources |-> IdleTask]
    /\ started = 0
    /\ pubOrder = 0
    /\ device_mappings = tempo_mappings
    /\ handler = << >>
    /\ \E c \in Calls, b \in BpmValues, dt \in {"tempo", "time"} :
          call = [stage |-> "given", bpm |-> b, data_type |-> dt, channel |-> c.channel,
                  given |-> c.command, command |-> c.command, value |-> None,
                  wire |-> None, result |-> "none"]

CallNext == substitute_tempo \/ transmit

CallSpec == CallInit /\ [][CallNext]_vars

(***************************************************************************)
(* Properties of the program-change path.                                  *)
(***************************************************************************)
\* mapping m listens on the channel of h
Listens(h, m) == device_mappings[m].listen_channel = h.channel

\* mapping m listens on the channel of h, its device exists and has the program
Resolves(h, m) ==
    /\ Listens(h, m)
    /\ device_mappings[m].device_id \in DeviceIds
    /\ find_program(devices[device_mappings[m].device_id].programs, h.program) # None

\* what h has dispatched for mapping m, in order
RECURSIVE DispatchedFor(_, _)
DispatchedFor(sent, m) ==
    IF sent = << >> THEN << >>
    ELSE IF Head(sent).map = m
         THEN << [command |-> Head(sent).command,
                  destination |-> Head(sent).destination,
                  channel |-> Head(sent).channel] >> \o DispatchedFor(Tail(sent), m)
         ELSE DispatchedFor(Tail(sent), m)

\* the program's commands, in declared order, against m's destination and channel
ExpectedFor(h, m) ==
    LET mapping == device_mappings[m]
        cmds == find_program(devices[mapping.device_id].programs, h.program)[1].commands
    IN  [j \in 1..Len(cmds) |-> [command |-> cmds[j],
                                 destination |-> mapping.destination,
                                 channel |-> mapping.send_channel]]

\* the warnings h has logged for mapping m
WarningsFor(h, m) == {j \in 1..Len(h.warned) : h.warned[j].map = m}

Handled(h) == h.pc = "done" /\ h.message = "program_change"

\* C9: when the handling of a program change is over, every mapping that
\* resolves has had all commands of its program executed, in declared order,
\* against its own destination and send channel.
C9_ResolvedProgramsExecuted ==
    \A n \in 1..Len(handler) :
        Handled(handler[n]) =>
            \A m \in 1..Len(device_mappings) :
                Resolves(handler[n], m)
                => DispatchedFor(handler[n].sent, m) = ExpectedFor(handler[n], m)

\* C10: when mappings share the listen channel and one of them names a missing
\* device or a device without the program, that mapping is reported once and
\* dispatches nothing, and every other mapping's commands are executed.
C10_OnlyUnresolvedMappingSkipped ==
    \A n \in 1..Len(handler) :
        LET h == handler[n]
            unresolved == {m \in 1..Len(device_mappings) : Listens(h, m) /\ ~Resolves(h, m)}
            resolved == {m \in 1..Len(device_mappings) : Resolves(h, m)}
        IN  (Handled(h) /\ unresolved # {} /\ resolved # {})
            => /\ \A m \in unresolved :
                    /\ Cardinality(WarningsFor(h, m)) = 1
                    /\ DispatchedFor(h.sent, m) = << >>
               /\ \A m \in resolved : DispatchedFor(h.sent, m) = ExpectedFor(h, m)

\* Both hold of every handling in which no send failed: the Err of a failed
\* send is what ends handle_program_change before the remaining mappings.
ResolvedProgramsExecutedUnlessSendFails ==
    \A n \in 1..Len(handler) :
        LET h == handler[n]
        IN  (Handled(h) /\ h.result = "ok")
            => \A m \in 1..Len(device_mappings) :
                  /\ Resolves(h, m) => DispatchedFor(h.sent, m) = ExpectedFor(h, m)
                  /\ (Listens(h, m) /\ ~Resolves(h, m))
                        => /\ Cardinality(WarningsFor(h, m)) = 1
                           /\ DispatchedFor(h.sent, m) = << >>

\* a transport send of h has failed
SendFailed(h) == \E j \in 1..Len(h.sent) : h.sent[j].out = "err"

\* C11: when the handling of a program change in which a transport send
\* failed is over, the work after the failed command was still done: every
\* mapping that resolves has had every command of its program dispatched.
C11_SendFailureDoesNotAbort ==
    \A n \in 1..Len(handler) :
        LET h == handler[n]
        IN  (Handled(h) /\ SendFailed(h))
            => \A m \in 1..Len(device_mappings) :
                  Resolves(h, m)
                  => Len(DispatchedFor(h.sent, m)) = Len(ExpectedFor(h, m))

\* the command of log entry e does not fit the kind of its destination
Mismatched(e) ==
    \/ e.command.type \in {"program_change", "control_change"} /\ e.destination.type = "osc"
    \/ e.command.type = "osc" /\ e.destination.type = "rtp_midi"

\* the number of commands in the list log entry e of h belongs to
ListLen(h, e) == Len(ExpectedFor(h, e.map))

\* the command after log entry j of h, when its list has one, has been
\* executed or is the one the handler executes next
ListContinues(h, j) ==
    LET e == h.sent[j]
    IN  e.ci < ListLen(h, e)
        => IF j < Len(h.sent)
           THEN h.sent[j + 1].map = e.map /\ h.sent[j + 1].ci = e.ci + 1
           ELSE h.pc = "exec" /\ h.mi = e.map /\ h.ci = e.ci + 1

\* C12: a ProgramChange or ControlChange executed against an OSC destination,
\* or an OSC command executed against an RTP-MIDI session, hands nothing to a
\* transport and returns Ok, and the command after it in the list is executed.
C12_MismatchSkippedListContinues ==
    \A n \in 1..Len(handler) : \A j \in 1..Len(handler[n].sent) :
        LET h == handler[n]
            e == h.sent[j]
        IN  Mismatched(e)
            => /\ e.via # "transport"
               /\ e.out = "ok"
               /\ ListContinues(h, j)

\* C12 witness: a handler has executed the command after a ProgramChange
\* against an OSC destination and the command after an OSC command against
\* an RTP-MIDI session.
C12_Witness ==
    \E n \in 1..Len(handler) :
        LET h == handler[n]
        IN  /\ \E j \in 1..(Len(h.sent) - 1) :
                  /\ h.sent[j].command.type = "program_change"
                  /\ h.sent[j].destination.type = "osc"
                  /\ h.sent[j + 1].map = h.sent[j].map
            /\ \E j \in 1..(Len(h.sent) - 1) :
                  /\ h.sent[j].command.type = "osc"
                  /\ h.sent[j].destination.type = "rtp_midi"
                  /\ h.sent[j + 1].map = h.sent[j].map

\* the command of log entry e fits its destination, whose name does not resolve
Unresolved(e) ==
    \/ /\ e.command.type \in {"program_change", "control_change"}
       /\ e.channel # None
       /\ e.destination.type = "rtp_midi"
       /\ e.destination.name \notin sessions
    \/ /\ e.command.type = "osc"
       /\ e.destination.type = "osc"
       /\ e.destination.name \notin osc_destinations

\* C17: a command for an RTP-MIDI session nobody holds, or for an OSC
\* destination name that does not resolve, is warned about, hands nothing to
\* a transport and returns Ok, and the command after it in the list is executed.
C17_UnknownNameSkippedListContinues ==
    \A n \in 1..Len(handler) : \A j \in 1..Len(handler[n].sent) :
        LET h == handler[n]
            e == h.sent[j]
        IN  Unresolved(e)
            => /\ e.via = (IF e.command.type = "osc" THEN "no_destination" ELSE "no_session")
               /\ e.out = "ok"
               /\ ListContinues(h, j)

\* C17 witness: a handler has executed the command after a ProgramChange for
\* an unknown session and the command after an OSC command for an unknown
\* OSC destination.
C17_Witness ==
    \E n \in 1..Len(handler) :
        LET h == handler[n]
        IN  /\ \E j \in 1..(Len(h.sent) - 1) :
                  /\ h.sent[j].via = "no_session"
                  /\ h.sent[j].command.type = "program_change"
                  /\ h.sent[j + 1].map = h.sent[j].map
            /\ \E j \in 1..(Len(h.sent) - 1) :
                  /\ h.sent[j].via = "no_destination"
                  /\ h.sent[j + 1].map = h.sent[j].map

\* C23: a ProgramChange or ControlChange of a mapping without send channel
\* is warned about, hands nothing to a transport and returns Ok, and the
\* command after it in the list is executed.
C23_NoChannelSkippedListContinues ==
    \A n \in 1..Len(handler) : \A j \in 1..Len(handler[n].sent) :
        LET h == handler[n]
            e == h.sent[j]
        IN  (e.command.type \in {"program_change", "control_change"} /\ e.channel = None)
            => /\ e.via = "no_channel"
               /\ e.out = "ok"
               /\ ListContinues(h, j)

\* C23 witness: a handler has executed the OSC command that follows a
\* ProgramChange without send channel, and the ControlChange after it.
C23_Witness ==
    \E n \in 1..Len(handler) :
        LET h == handler[n]
        IN  \E j \in 1..(Len(h.sent) - 2) :
               /\ h.sent[j].command.type = "program_change"
               /\ h.sent[j].channel = None
               /\ h.sent[j + 1].map = h.sent[j].map
               /\ h.sent[j + 2].command.type = "control_change"
               /\ h.sent[j + 2].via = "no_channel"

(***************************************************************************)
(* Properties of the delivery of one command.                              *)
(***************************************************************************)
\* the configured command is an OSC command with a Normalized argument
\* whose min equals its max
DegenerateNormalized(command) ==
    /\ command.type = "osc"
    /\ \E j \in 1..Len(command.args) :
          command.args[j].type = "normalized" /\ command.args[j].min = command.args[j].max

\* every Float argument of the OSC message is a finite number
FiniteArgs(message) ==
    \A j \in 1..Len(message.args) :
        message.args[j].tag = "Float" => message.args[j].value.kind = "finite"

\* C13: the delivery of an OSC command with a Normalized argument whose min
\* equals its max, directly or as a raw-tempo command, ends with an error and
\* no message handed to the socket; no OSC message handed to the socket
\* carries a NaN or an infinity.
C13_DegenerateNormalizedRejected ==
    call.stage = "done"
    => /\ DegenerateNormalized(call.given) => (call.result = "err" /\ call.wire = None)
       /\ (call.command.type = "osc" /\ call.wire # None) => FiniteArgs(call.wire[1])

\* send_raw_tempo has put the tempo into the command of this delivery
Substituted == call.value # None

\* C15: for every BPM b > 0 the value send_raw_tempo computes is b itself
\* for data type Tempo and 60000 / b for data type Time (500 for b = 120),
\* it is the value put into a Float argument of the device's command, and
\* the tap-tempo interval is 60000 / b milliseconds cut to a whole number
\* (500 ms for b = 120).
C15_TempoScalar ==
    Substituted
    => LET v == call.value[1]
           b == call.bpm
       IN  /\ v.kind = "finite"
           /\ call.data_type = "tempo" => v.num = b * v.den
           /\ call.data_type = "time" => v.num * b = 60000 * v.den
           /\ (call.data_type = "time" /\ b = 120) => v = Finite(500, 1)
           /\ (call.given.type = "osc" /\ call.given.args[1].type = "float")
                 => call.command.args[1].value = v
           /\ quarter_note_ms(b) * b <= 60000
           /\ 60000 < (quarter_note_ms(b) + 1) * b
           /\ b = 120 => quarter_note_ms(b) = 500

\* C15 witness: 120 BPM with data type Time has been put into a Float
\* argument as 500.
C15_Witness ==
    /\ call.stage = "substituted"
    /\ call.bpm = 120 /\ call.data_type = "time"
    /\ call.given.type = "osc" /\ call.given.args[1].type = "float"
    /\ call.command.args[1].value = Finite(500, 1)

\* C16: the CC value send_raw_tempo computes for data type Tempo is the
\* linear map of 60..180 BPM onto 0..127, cut to a whole number and clamped:
\* 0 up to 60 BPM, 127 from 180 BPM on, always within 0..127.
C16_TempoCcValue ==
    (Substituted /\ call.given.type = "control_change" /\ call.data_type = "tempo")
    => LET cc == call.command.value
           b  == call.bpm
       IN  /\ cc \in 0..127
           /\ b <= 60 => cc = 0
           /\ b >= 180 => cc = 127
           /\ (60 < b /\ b < 180)
                 => (cc * 120 <= (b - 60) * 127 /\ (b - 60) * 127 < (cc + 1) * 120)
           /\ call.command.controller = call.given.controller

\* C16 witness: 30 BPM has been mapped to the CC value 0.
C16_Witness ==
    /\ Substituted
    /\ call.given.type = "control_change" /\ call.data_type = "tempo"
    /\ call.bpm = 30
    /\ call.command.value = 0

(***************************************************************************)
(* Properties of the router.                                               *)
(***************************************************************************)
\* the handling of an event has ended with an error
ErrorSeen ==
    \/ \E s \in Sources : task[s].result = "err"
    \/ \E n \in 1..Len(handler) : handler[n].result = "err"

IsPrefix(a, b) == Len(a) <= Len(b) /\ \A j \in 1..Len(a) : a[j] = b[j]

\* C18: within one command list the commands are dispatched one after the
\* other in declared order: what a program-change handler has dispatched for
\* a mapping is an initial part of its program's list, and what a tempo
\* update has dispatched to a device is an initial part of the device's list
\* replayed once per tap (once for a raw-tempo device).
C18_DeclaredOrder ==
    /\ \A n \in 1..Len(handler) : \A m \in 1..Len(device_mappings) :
          IF handler[n].message = "program_change" /\ Resolves(handler[n], m)
          THEN IsPrefix(DispatchedFor(handler[n].sent, m), ExpectedFor(handler[n], m))
          ELSE DispatchedFor(handler[n].sent, m) = << >>
    /\ \A s \in Sources : \A d \in 1..Len(task[s].updates) :
          LET spec == Update(task[s].updates[d]).tempo_spec
          IN  IsPrefix(SentTo(task[s].sent, d),
                       Replay(Len(spec.commands),
                              IF spec.type = "tap_tempo" THEN Taps ELSE 1))

\* C18 witness: a handler has dispatched both commands of a two-command
\* program and a tempo update has dispatched a two-command tap list twice.
C18_Witness ==
    /\ \E n \in 1..Len(handler) : \E m \in 1..Len(device_mappings) :
          /\ Resolves(handler[n], m)
          /\ Len(ExpectedFor(handler[n], m)) = 2
          /\ DispatchedFor(handler[n].sent, m) = ExpectedFor(handler[n], m)
    /\ \E s \in Sources : SentTo(task[s].sent, 1) = << 1, 2, 1, 2 >>

\* C20: whenever a command is handed to a transport, by a program-change
\* handler or by the fan-out of a tempo update, the dispatching task holds no
\* read guard on the map configuration or the device configuration.
C20_NoDispatchUnderConfigLock ==
    /\ \A n \in 1..Len(handler) : \A j \in 1..Len(handler[n].sent) :
          handler[n].sent[j].via = "transport" => handler[n].sent[j].held = {}
    /\ \A s \in Sources : \A j \in 1..Len(task[s].sent) :
          task[s].sent[j].via = "transport" => task[s].sent[j].held = {}

\* a program-change handler whose next command re-acquires the map-config lock
Reacquires(h) ==
    /\ h.pc = "exec"
    /\ acquires(current_commands(h)[h.ci], device_mappings[h.mi].destination,
                device_mappings[h.mi].send_channel) # {}

\* C29: no task is ever kept waiting at a configuration lock: a handler that
\* executes commands holds the read guards of both locks, and every step
\* that acquires a read guard (the start of program-change handling, the
\* collection of a tempo update, a send that looks up the map
\* configuration again) can be taken in every reachable state, because no
\* task requests a write guard.
C29_ConfigLocksNeverBlock ==
    /\ \A lock \in ConfigLocks : write_requests(lock) = {}
    /\ \A n \in 1..Len(handler) :
          /\ handler[n].pc = "start" => ENABLED process_midi_message(n)
          /\ handler[n].pc = "exec"
             => /\ handler[n].guards = ConfigLocks
                /\ ENABLED program_execute(n)
    /\ \A s \in Sources :
          /\ task[s].pc = "collect"  => ENABLED collect_tempo_updates(s)
          /\ task[s].pc = "tap_exec" => ENABLED tap_execute(s)
          /\ task[s].pc = "raw_exec" => ENABLED raw_execute(s)

\* C29 witness: a program-change handler that holds both read guards is
\* about to re-acquire the map-config lock while a tempo update is at a send
\* that acquires the same lock.
C29_Witness ==
    \E n \in 1..Len(handler) :
        /\ Reacquires(handler[n])
        /\ readers("map_config") >= 1
        /\ \E s \in Sources :
              /\ task[s].pc \in {"tap_exec", "raw_exec"}
              /\ DispatchAcquires(task[s]) # {}

\* x clamped into lo..hi
Clamp(x, lo, hi) == IF x < lo THEN lo ELSE IF x > hi THEN hi ELSE x

\* the payload bytes of a MIDI command
Payload(command) ==
    IF command.type = "program_change" THEN << command.program >>
    ELSE << command.controller, command.value >>

\* C24: an emitted MIDI message carries the send channel minus one clamped
\* into 0..15 and every payload byte clamped into 0..127, so an input beyond
\* the range is emitted as the edge of the range (15 or 127).
C24_MidiFieldsSaturate ==
    (call.stage = "done" /\ call.command.type # "osc")
    => LET m == call.wire[1]
           bytes == Payload(call.command)
       IN  /\ m.channel \in 0..15
           /\ m.channel = Clamp(call.channel - 1, 0, 15)
           /\ \A j \in 1..Len(bytes) :
                 m.data[j] \in 0..127 /\ m.data[j] = Clamp(bytes[j], 0, 127)

\* The emitted fields are the low bits of their inputs and always in range.
MidiFieldsMasked ==
    (call.stage = "done" /\ call.command.type # "osc")
    => LET m == call.wire[1]
           bytes == Payload(call.command)
       IN  /\ m.channel \in 0..15
           /\ m.channel = Clamp(call.channel - 1, 0, 255) % 16
           /\ \A j \in 1..Len(bytes) :
                 m.data[j] \in 0..127 /\ m.data[j] = bytes[j] % 128

\* C25: the CC value send_raw_tempo computes for data type Time is within
\* 0..127, is 0 at 60 BPM and below, is 127 at 180 BPM and above, and is
\* never lower for a faster tempo than for a slower one.
C25_TimeCcValue ==
    (Substituted /\ call.given.type = "control_change" /\ call.data_type = "time")
    => LET cc == call.command.value
           b  == call.bpm
       IN  /\ cc \in 0..127
           /\ b <= 60 => cc = 0
           /\ b >= 180 => cc = 127
           /\ cc <= cc_value("time", tempo_value("time", b + 1))

\* Without the value at 180 BPM the rest holds: the map reaches 127 from
\* 181 BPM on.
TimeCcValueFrom181 ==
    (Substituted /\ call.given.type = "control_change" /\ call.data_type = "time")
    => LET cc == call.command.value
           b  == call.bpm
       IN  /\ cc \in 0..127
           /\ b <= 60 => cc = 0
           /\ b = 180 => cc = 126
           /\ b >= 181 => cc = 127
           /\ cc <= cc_value("time", tempo_value("time", b + 1))

\* the float x equals the quotient n / d of whole numbers (d # 0)
EqualsQuotient(x, n, d) == x.kind = "finite" /\ x.num * d = n * x.den

\* C26: send_raw_tempo hands on an OSC command with the same address and as
\* many arguments in the same order, where a Float argument carries the
\* computed value, an Int argument the value cast to a whole number, a
\* Normalized argument with min # max has become the Float
\* (value - min) / (max - min), and String and Bool arguments are as
\* configured; a ProgramChange is handed on as configured.
C26_RawTempoSubstitution ==
    Substituted
    => LET v == call.value[1]
           g == call.given
           c == call.command
       IN  /\ g.type = "program_change" => c = g
           /\ g.type = "osc"
                => /\ c.type = "osc"
                   /\ c.address = g.address
                   /\ Len(c.args) = Len(g.args)
                   /\ \A j \in 1..Len(g.args) :
                         LET a == g.args[j] IN
                         /\ a.type = "float" => c.args[j] = FloatArg(v)
                         /\ a.type = "int"
                              => /\ c.args[j].type = "int"
                                 /\ c.args[j].value * v.den <= v.num
                                 /\ v.num < (c.args[j].value + 1) * v.den
                         /\ (a.type = "normalized" /\ a.min # a.max)
                              => /\ c.args[j].type = "float"
                                 /\ EqualsQuotient(c.args[j].value,
                                                   v.num - a.min * v.den,
                                                   v.den * (a.max - a.min))
                         /\ a.type \in {"string", "bool"} => c.args[j] = a

\* C26 witness: 90 BPM as a quarter-note time, 2000/3 ms, has been put into
\* the five-argument command: Int 666, String kept, Normalized over 0..2
\* become 1000/3, Bool kept, Float 2000/3.
C26_Witness ==
    /\ call.stage = "substituted"
    /\ call.bpm = 90 /\ call.data_type = "time"
    /\ call.given.type = "osc"
    /\ call.given.address = "/mixed"
    /\ call.command.args = << IntArg(666), StringArg("bpm"), FloatArg(Finite(1000, 3)),
                              BoolArg(FALSE), FloatArg(Finite(2000, 3)) >>

\* values the channel field of a command can be replaced by: the ends of
\* the u8 range, the ends of 1..16 and the configured values
OtherChannels == {0, 16, 255} \cup CommandChannels

\* the command with ch as its own channel field
OnChannel(command, ch) == [command EXCEPT !.channel = ch]

\* C31: the MIDI message emitted for a ProgramChange or ControlChange is the
\* one emitted for every command that differs from it only in its own
\* channel field, under the same send channel: the channel of the message
\* is that of the mapping's send channel, and whether the command is sent
\* at all does not depend on the field either.
C31_ChannelFromMappingOnly ==
    (call.stage = "done" /\ call.command.type # "osc")
    => \A ch \in OtherChannels :
          /\ midi_message_for(OnChannel(call.command, ch), call.channel) = call.wire[1]
          /\ call.wire[1].channel = midi_channel(call.channel)
          /\ \A destination \in {RtpMidi("main"), RtpMidi("gone"), OscDest("desk")} :
                execute_command(OnChannel(call.command, ch), destination, Some(call.channel))
                   = execute_command(call.command, destination, Some(call.channel))

\* C31 witness: a command whose own channel field names another channel than
\* the mapping's send channel has been emitted, on the mapping's channel.
C31_Witness ==
    /\ call.stage = "done"
    /\ call.command.type = "program_change"
    /\ call.command.channel = 10
    /\ call.channel = 1
    /\ call.wire[1].channel = 0

====
